---- MODULE Spec2Model ----
(***************************************************************************)
(* masterblog (src/app.py): a Flask blog whose posts live in one list,     *)
(* cached on the function attribute get_data._cache and written to the     *)
(* JSON file JSON_PATH after every mutation.                               *)
(*                                                                         *)
(* The list objects that load_data returns live in `heap`; `cache` is the  *)
(* reference held by get_data._cache (NoCache while the attribute is not   *)
(* set).  SpecSeq, SpecDistinct, SpecCreate, SpecAdd, SpecAddDistinct and  *)
(* SpecLoad run the request handlers one at a time, each handler as one    *)
(* action.  SpecRoundTrip runs save_data in one run of the program and     *)
(* load_data in the next.  Spec runs the handlers on Threads, cut at the   *)
(* points where another request can run in between.                        *)
(***************************************************************************)
EXTENDS Integers, Sequences, FiniteSets, TLC

VARIABLES file, cache, heap, ret, loads, fails, pc, local, served

vars == <<file, cache, heap, ret, loads, fails, pc, local, served>>

(***************************************************************************)
(* Bounds of the model.                                                    *)
(***************************************************************************)
\* add (POST) is not taken once a list holds MaxPosts posts
MaxPosts == 2
\* like is not taken on a post that has MaxLikes likes
MaxLikes == 1
\* add (POST) is not taken once the highest id is MaxId: deleting the post
\* with the highest id and creating another one can go on for ever
MaxId == MaxPosts + 1
\* save_data fails at most MaxFails times in a run
MaxFails == 1
\* the threads take at most MaxRequests requests in a run
MaxRequests == 3

Threads == {1, 2}
Main == 1
NoCache == 0
Refs == Threads

\* request.form.get(...) gives None for a field the form lacks
NoneVal == "None"
\* the forms a create request submits, and the forms an update request submits
AddForms ==
    { [author |-> "alice", title |-> "T1", content |-> "hello"],
      [author |-> "bob", title |-> "T1", content |-> NoneVal] }
UpdateForms == { [author |-> "bob", title |-> NoneVal, content |-> NoneVal] }
\* request.form of a GET request holds nothing
EmptyForm == [author |-> NoneVal, title |-> NoneVal, content |-> NoneVal]
AddRequests ==
    {[method |-> "GET", form |-> EmptyForm]}
        \cup {[method |-> "POST", form |-> f] : f \in AddForms}
UpdateRequests ==
    {[method |-> "GET", form |-> EmptyForm]}
        \cup {[method |-> "POST", form |-> f] : f \in UpdateForms}
PostIds == 1..MaxId

Post(id, author, title, content, likes) ==
    [id |-> id, author |-> author, title |-> title, content |-> content, likes |-> likes]

(***************************************************************************)
(* JSON: json.dump writes a list of objects; a number, a string and null    *)
(* are three different values.                                             *)
(***************************************************************************)
JNum(n) == [t |-> "num", n |-> n, s |-> ""]
JStr(s) == [t |-> "str", n |-> 0, s |-> s]
JNull == [t |-> "null", n |-> 0, s |-> ""]


\* a bug: None is written as the empty string
EncText_empty(v) == IF v = NoneVal THEN JStr("") ELSE JStr(v)

EncText(v) == IF v = NoneVal THEN JNull ELSE JStr(v)
DecText(j) == IF j.t = "null" THEN NoneVal ELSE j.s

\* an object: its members by key
EncPost(p) ==
    [id |-> JNum(p.id),
     author |-> EncText(p.author),
     title |-> EncText(p.title),
     content |-> EncText(p.content),
     likes |-> JNum(p.likes)]

DecPost(obj) ==
    [id |-> obj.id.n,
     author |-> DecText(obj.author),
     title |-> DecText(obj.title),
     content |-> DecText(obj.content),
     likes |-> obj.likes.n]

json_dump(data) == [i \in 1..Len(data) |-> EncPost(data[i])]
json_load(doc) == [i \in 1..Len(doc) |-> DecPost(doc[i])]

(***************************************************************************)
(* The backing file JSON_PATH: absent, text that is no JSON (the empty     *)
(* file included), or a JSON document.                                     *)
(***************************************************************************)
Absent == [kind |-> "absent", doc |-> <<>>]
Garbage == [kind |-> "garbage", doc |-> <<>>]
\* a file of no bytes, and a file that open or read fails on with another
\* error (no permission, a directory, bytes that are not UTF-8)
EmptyFile == [kind |-> "empty", doc |-> <<>>]
Unreadable == [kind |-> "unreadable", doc |-> <<>>]
JsonFile(data) == [kind |-> "json", doc |-> json_dump(data)]


\* a bug: a sample post stands in for a file that cannot be read
load_data_sample(f) ==
    IF f.kind = "json" THEN json_load(f.doc)
    ELSE <<[id |-> 1, author |-> "alice", title |-> "T1", content |-> "hello", likes |-> 0]>>

load_data(f) == IF f.kind = "json" THEN json_load(f.doc) ELSE <<>>

\* open(JSON_PATH, 'w') truncates the file before json.dump writes it
SaveOutcomes == {"ok", "open_fails", "write_fails"}

\* a bug: the failure is reported after the file was written
save_data_writes(f, data, outcome) == JsonFile(data)

save_data(f, data, outcome) ==
    CASE outcome = "ok" -> JsonFile(data)
      [] outcome = "open_fails" -> f
      [] outcome = "write_fails" -> Garbage

(***************************************************************************)
(* The list operations of the handlers.                                    *)
(***************************************************************************)
Ids(data) == {data[i].id : i \in 1..Len(data)}

\* list.remove(x): drops the first element equal to x
remove(data, x) ==
    LET j == CHOOSE k \in 1..Len(data) :
                 data[k] = x /\ \A m \in 1..(k - 1) : data[m] # x
    IN SubSeq(data, 1, j - 1) \o SubSeq(data, j + 1, Len(data))


\* a bug: the first post of the list is dropped when the id is found
delete_loop_pop(data, i, post_id) ==
    IF post_id \in Ids(data) THEN Tail(data) ELSE data

\* for post in data: if post['id'] == post_id: data.remove(post)
\* The list iterator keeps an index i into the list (0-based: the next
\* element it yields is data[i + 1]) and stops when i reaches len(data),
\* whatever the loop body did to the list in the meantime.
RECURSIVE delete_loop(_, _, _)
delete_loop(data, i, post_id) ==
    IF i >= Len(data) THEN data
    ELSE IF data[i + 1].id = post_id
         THEN delete_loop(remove(data, data[i + 1]), i + 1, post_id)
         ELSE delete_loop(data, i + 1, post_id)


\* a bug: the loop stops at the first post with the id
like_loop_first(data, post_id) ==
    LET idx == {i \in 1..Len(data) : data[i].id = post_id}
    IN [i \in 1..Len(data) |->
           IF i \in idx /\ \A j \in idx : i <= j
           THEN [data[i] EXCEPT !.likes = @ + 1]
           ELSE data[i]]

\* for post in data: if post['id'] == post_id: post['likes'] += 1
like_loop(data, post_id) ==
    [i \in 1..Len(data) |->
        IF data[i].id = post_id
        THEN [data[i] EXCEPT !.likes = @ + 1]
        ELSE data[i]]

\* a bug: the loop stops at the first post with the id
updated_post_first(data, post_id) ==
    LET idx == {i \in 1..Len(data) : data[i].id = post_id}
    IN IF idx = {} THEN 0 ELSE CHOOSE i \in idx : \A j \in idx : i <= j

\* for post in data: if post['id'] == post_id: updated_post = post
\* the position of updated_post in data, 0 for None
updated_post(data, post_id) ==
    LET idx == {i \in 1..Len(data) : data[i].id = post_id}
    IN IF idx = {} THEN 0 ELSE CHOOSE i \in idx : \A j \in idx : j <= i


\* a bug: the post is rebuilt as a new post, which has no likes
update_fields_reset(data, k, author, content) ==
    [data EXCEPT ![k] = [@ EXCEPT !.author = author, !.content = content, !.likes = 0]]

\* a bug: the content is stored under 'title'
update_fields_title(data, k, author, content) ==
    [data EXCEPT ![k] = [@ EXCEPT !.author = author, !.title = content]]

\* updated_post['author'] = ...; updated_post['content'] = ...
update_fields(data, k, author, content) ==
    [data EXCEPT ![k] = [@ EXCEPT !.author = author, !.content = content]]


\* a bug: the number of posts is taken for the highest id
highest_id_count(data) == Len(data)

\* max([post['id'] for post in data], default=0)
highest_id(data) ==
    IF Len(data) = 0 THEN 0
    ELSE CHOOSE m \in Ids(data) : \A x \in Ids(data) : x <= m


\* a bug: the highest id is given again
new_post_same_id(h, author, title, content) == Post(h, author, title, content, 0)

new_post(h, author, title, content) == Post(h + 1, author, title, content, 0)


\* a bug: the post is put in front of the others
append_front(data, p) == <<p>> \o data

append(data, p) == Append(data, p)

(***************************************************************************)
(* What the backing file holds at start, and what another program may      *)
(* write into it.                                                          *)
(***************************************************************************)
P1 == Post(1, "alice", "T1", "hello", 0)
P1b == Post(1, "bob", "T1", NoneVal, 0)
P2 == Post(2, "bob", "", NoneVal, 0)
P3 == Post(3, "alice", "T1", "hello", 1)

\* collections whose ids are pairwise distinct
DistinctCollections ==
    { <<>>, <<P1>>, <<P1, P2>>, <<P2, P1>>, <<P1, P2, P3>>, <<P3, P1b, P2>> }
\* collections in which an id occurs more than once
DuplicateCollections ==
    { <<P1, P1b>>, <<P1, P1>>, <<P1, P2, P1b>>, <<P1b, P1, P1>> }

DistinctFiles == {Absent, Garbage} \cup {JsonFile(c) : c \in DistinctCollections}
InitFiles == DistinctFiles \cup {JsonFile(c) : c \in DuplicateCollections}
ExternalFiles == {Absent, JsonFile(<<>>)}

\* the responses: a redirect to the index page, a rendered page, "Post not found"
Redirect == "302 redirect to index"
Rendered == "200 rendered page"
NotFound == "404 Post not found"
NoResponse == "no response"
Idle == [op |-> "idle", data |-> NoCache, highest_id |-> 0]

\* no request was served yet
InitState ==
    /\ cache = NoCache
    /\ heap = [r \in Refs |-> <<>>]
    /\ ret = [t \in Threads |-> NoResponse]
    /\ loads = 0
    /\ fails = 0
    /\ pc = [t \in Threads |-> "idle"]
    /\ local = [t \in Threads |-> Idle]
    /\ served = 0

Init == file \in InitFiles /\ InitState

(***************************************************************************)
(* get_data                                                                *)
(***************************************************************************)
Cached == cache # NoCache

\* the reference get_data() returns to a handler that runs alone
get_data_ref == IF Cached THEN cache ELSE Main


\* a bug: the file is read at every call
get_data_list_reload == load_data(file)

\* the list behind that reference when get_data() returns
get_data_list == IF Cached THEN heap[cache] ELSE load_data(file)

\* get_data(), after which the handler leaves `data` in the list;
\* loads counts the calls of load_data
get_data(data) ==
    /\ cache' = get_data_ref
    /\ heap' = [heap EXCEPT ![get_data_ref] = data]
    /\ loads' = IF Cached THEN loads ELSE loads + 1

Cache == heap[cache]

\* save_data(data), with the outcome the file system decides; fails counts
\* the calls that did not write the file
save(data) ==
    \E outcome \in SaveOutcomes :
        /\ outcome # "ok" => fails < MaxFails
        /\ file' = save_data(file, data, outcome)
        /\ fails' = IF outcome = "ok" THEN fails ELSE fails + 1

(***************************************************************************)
(* The request handlers, one request at a time.                            *)
(***************************************************************************)

\* a bug: the listing reverses the cached list in place, newest post first
index_reversed ==
    /\ get_data([i \in 1..Len(get_data_list) |->
                    get_data_list[Len(get_data_list) + 1 - i]])
    /\ ret' = [ret EXCEPT ![Main] = Rendered]
    /\ UNCHANGED <<file, fails, pc, local, served>>

index ==
    /\ get_data(get_data_list)
    /\ ret' = [ret EXCEPT ![Main] = Rendered]
    /\ UNCHANGED <<file, fails, pc, local, served>>


\* a bug: save_data is called only when a post was removed
delete_saves_if_removed(post_id) ==
    LET data == delete_loop(get_data_list, 0, post_id) IN
    /\ get_data(data)
    /\ IF data # get_data_list THEN save(data) ELSE UNCHANGED <<file, fails>>
    /\ ret' = [ret EXCEPT ![Main] = Redirect]
    /\ UNCHANGED <<pc, local, served>>

delete(post_id) ==
    LET data == delete_loop(get_data_list, 0, post_id) IN
    /\ get_data(data)
    /\ save(data)
    /\ ret' = [ret EXCEPT ![Main] = Redirect]
    /\ UNCHANGED <<pc, local, served>>


\* a bug: like does not call save_data
like_unsaved(post_id) ==
    LET data == like_loop(get_data_list, post_id) IN
    /\ \A i \in 1..Len(data) : data[i].likes <= MaxLikes
    /\ get_data(data)
    /\ ret' = [ret EXCEPT ![Main] = Redirect]
    /\ UNCHANGED <<file, fails, pc, local, served>>

like(post_id) ==
    LET data == like_loop(get_data_list, post_id) IN
    /\ \A i \in 1..Len(data) : data[i].likes <= MaxLikes
    /\ get_data(data)
    /\ save(data)
    /\ ret' = [ret EXCEPT ![Main] = Redirect]
    /\ UNCHANGED <<pc, local, served>>


\* a bug: save_data is called before the post is looked for
update_saves_first(method, post_id, form) ==
    LET k == updated_post(get_data_list, post_id) IN
    IF k = 0
    THEN /\ get_data(get_data_list)
         /\ save(get_data_list)
         /\ ret' = [ret EXCEPT ![Main] = NotFound]
         /\ UNCHANGED <<pc, local, served>>
    ELSE IF method = "POST"
    THEN LET data == update_fields(get_data_list, k, form.author, form.content) IN
         /\ get_data(data)
         /\ save(data)
         /\ ret' = [ret EXCEPT ![Main] = Redirect]
         /\ UNCHANGED <<pc, local, served>>
    ELSE /\ get_data(get_data_list)
         /\ ret' = [ret EXCEPT ![Main] = Rendered]
         /\ UNCHANGED <<file, fails, pc, local, served>>

update(method, post_id, form) ==
    LET k == updated_post(get_data_list, post_id) IN
    IF k = 0
    THEN /\ get_data(get_data_list)
         /\ ret' = [ret EXCEPT ![Main] = NotFound]
         /\ UNCHANGED <<file, fails, pc, local, served>>
    ELSE IF method = "POST"
    THEN LET data == update_fields(get_data_list, k, form.author, form.content) IN
         /\ get_data(data)
         /\ save(data)
         /\ ret' = [ret EXCEPT ![Main] = Redirect]
         /\ UNCHANGED <<pc, local, served>>
    ELSE /\ get_data(get_data_list)
         /\ ret' = [ret EXCEPT ![Main] = Rendered]
         /\ UNCHANGED <<file, fails, pc, local, served>>

add(method, form) ==
    LET h == highest_id(get_data_list) IN
    IF method = "POST"
    THEN LET data == append(get_data_list,
                            new_post(h, form.author, form.title, form.content)) IN
         /\ Len(get_data_list) < MaxPosts
         /\ h < MaxId
         /\ get_data(data)
         /\ save(data)
         /\ ret' = [ret EXCEPT ![Main] = Redirect]
         /\ UNCHANGED <<pc, local, served>>
    ELSE /\ get_data(get_data_list)
         /\ ret' = [ret EXCEPT ![Main] = Rendered]
         /\ UNCHANGED <<file, fails, pc, local, served>>

\* another program rewrites, corrupts or removes the backing file
ExternalWrite ==
    /\ \E f \in ExternalFiles : file' = f
    /\ UNCHANGED <<cache, heap, ret, loads, fails, pc, local, served>>

NextSeq ==
    \/ index
    \/ \E post_id \in PostIds : delete(post_id)
    \/ \E post_id \in PostIds : like(post_id)
    \/ \E post_id \in PostIds, request \in UpdateRequests :
          update(request.method, post_id, request.form)
    \/ \E request \in AddRequests : add(request.method, request.form)
    \/ ExternalWrite

\* the backing file holds any of InitFiles at start
SpecSeq == Init /\ [][NextSeq]_vars

\* the backing file holds a collection with pairwise distinct ids at start
InitDistinct == Init /\ file \in DistinctFiles
SpecDistinct == InitDistinct /\ [][NextSeq]_vars

\* the backing file holds no post at start, and the only requests are create
\* requests and the listing that shows what they left
InitEmpty == Init /\ load_data(file) = <<>>
CreateForms == AddForms \cup {[author |-> "", title |-> NoneVal, content |-> ""]}
NextCreate ==
    \/ \E form \in CreateForms : add("POST", form)
    \/ index
    \/ ExternalWrite
SpecCreate == InitEmpty /\ [][NextCreate]_vars

\* the requests are create requests (with a field left empty or absent too),
\* requests for the create form, listings and deletions
NextAdd ==
    \/ \E form \in CreateForms : add("POST", form)
    \/ add("GET", EmptyForm)
    \/ index
    \/ \E post_id \in PostIds : delete(post_id)
    \/ ExternalWrite
SpecAdd == Init /\ [][NextAdd]_vars
\* the same requests on a collection with pairwise distinct ids
SpecAddDistinct == InitDistinct /\ [][NextAdd]_vars

\* the backing file cannot be loaded at start: it is missing, empty, no JSON, or
\* cannot be read
LoadFiles == {Absent, EmptyFile, Garbage, Unreadable}
InitLoad == file \in LoadFiles /\ InitState
SpecLoad == InitLoad /\ [][NextSeq]_vars

(***************************************************************************)
(* save_data and load_data across two runs of the program: a run that holds *)
(* a collection saves it, and the next run, whose get_data has no _cache   *)
(* yet, loads the file.  The list of the first run stays in heap[Main],    *)
(* the list the next run loads is heap[NextRun].                           *)
(***************************************************************************)
NextRun == 2

\* the collections a run may hold: up to MaxPosts posts, in any order, ids
\* repeated or not, each text field a string, the empty string or None
RoundTripForms == CreateForms \cup {EmptyForm}
RoundTripPosts ==
    { Post(id, f.author, f.title, f.content, likes) :
          id \in 1..MaxPosts, f \in RoundTripForms, likes \in 0..MaxLikes }
RoundTripCollections ==
    UNION { [1..n -> RoundTripPosts] : n \in 0..MaxPosts }

InitRoundTrip ==
    /\ file = Absent
    /\ cache = Main
    /\ \E data \in RoundTripCollections :
          heap = [r \in Refs |-> IF r = Main THEN data ELSE <<>>]
    /\ ret = [t \in Threads |-> NoResponse]
    /\ loads = 0
    /\ fails = 0
    /\ pc = [t \in Threads |-> "idle"]
    /\ local = [t \in Threads |-> Idle]
    /\ served = 0

\* save_data(data) in the first run
save_collection ==
    /\ pc[Main] \in {"idle", "saved"}
    /\ save(Cache)
    /\ pc' = [pc EXCEPT ![Main] = "saved"]
    /\ UNCHANGED <<cache, heap, ret, loads, local, served>>

\* get_data._cache = load_data() in the next run
load_collection ==
    /\ pc[Main] = "saved"
    /\ heap' = [heap EXCEPT ![NextRun] = load_data(file)]
    /\ cache' = NextRun
    /\ loads' = loads + 1
    /\ pc' = [pc EXCEPT ![Main] = "loaded"]
    /\ UNCHANGED <<file, ret, fails, local, served>>

NextRoundTrip == save_collection \/ load_collection
SpecRoundTrip == InitRoundTrip /\ [][NextRoundTrip]_vars

(***************************************************************************)
(* The request handlers on threads.  A handler is cut where the code reads *)
(* or writes the shared list or get_data._cache, so that the other thread  *)
(* can run between the test of line 40 and the assignment of line 41, and  *)
(* between line 157 (highest_id) and line 170 (append).  pc[t] is the      *)
(* position of thread t, local[t] its local variables.  The threads serve *)
(* the index, add (POST) and delete requests.                              *)
(***************************************************************************)
Ops == {"index", "add", "delete"}

goto(t, label) == pc' = [pc EXCEPT ![t] = label]

\* a request arrives; get_data tests hasattr(get_data, "_cache")
t_get_data(t, op) ==
    /\ pc[t] = "idle"
    /\ served < MaxRequests
    /\ served' = served + 1
    /\ goto(t, IF Cached THEN "return" ELSE "load")
    /\ local' = [local EXCEPT ![t] = [Idle EXCEPT !.op = op]]
    /\ UNCHANGED <<file, cache, heap, ret, loads, fails>>

\* get_data._cache = load_data(): a new list, whatever the attribute holds by now
t_load(t) ==
    /\ pc[t] = "load"
    /\ heap' = [heap EXCEPT ![t] = load_data(file)]
    /\ cache' = t
    /\ loads' = loads + 1
    /\ goto(t, "return")
    /\ UNCHANGED <<file, ret, fails, local, served>>

\* return get_data._cache; the handler goes on with that list
t_return(t) ==
    /\ pc[t] = "return"
    /\ local' = [local EXCEPT ![t].data = cache]
    /\ goto(t, local[t].op)
    /\ UNCHANGED <<file, cache, heap, ret, loads, fails, served>>

\* the handler returns: its local variables are gone
t_index(t) ==
    /\ pc[t] = "index"
    /\ ret' = [ret EXCEPT ![t] = Rendered]
    /\ goto(t, "idle")
    /\ local' = [local EXCEPT ![t] = Idle]
    /\ UNCHANGED <<file, cache, heap, loads, fails, served>>

\* highest_id = max([post['id'] for post in data], default=0)
t_add_highest_id(t) ==
    /\ pc[t] = "add"
    /\ Len(heap[local[t].data]) < MaxPosts
    /\ highest_id(heap[local[t].data]) < MaxId
    /\ local' = [local EXCEPT ![t].highest_id = highest_id(heap[local[t].data])]
    /\ goto(t, "add_append")
    /\ UNCHANGED <<file, cache, heap, ret, loads, fails, served>>


\* a change: the id is computed when the post is appended
t_add_append_fresh(t) ==
    /\ pc[t] = "add_append"
    /\ \E form \in AddForms :
          heap' = [heap EXCEPT ![local[t].data] =
                      append(@, new_post(highest_id(@), form.author,
                                         form.title, form.content))]
    /\ goto(t, "save")
    /\ UNCHANGED <<file, cache, ret, loads, fails, local, served>>

\* data.append(new_post), with the id computed at line 157
t_add_append(t) ==
    /\ pc[t] = "add_append"
    /\ \E form \in AddForms :
          heap' = [heap EXCEPT ![local[t].data] =
                      append(@, new_post(local[t].highest_id, form.author,
                                         form.title, form.content))]
    /\ goto(t, "save")
    /\ UNCHANGED <<file, cache, ret, loads, fails, local, served>>

t_delete_loop(t) ==
    /\ pc[t] = "delete"
    /\ \E post_id \in PostIds :
          heap' = [heap EXCEPT ![local[t].data] = delete_loop(@, 0, post_id)]
    /\ goto(t, "save")
    /\ UNCHANGED <<file, cache, ret, loads, fails, local, served>>

\* save_data(data); return redirect(url_for('index'))
t_save(t) ==
    /\ pc[t] = "save"
    /\ save(heap[local[t].data])
    /\ ret' = [ret EXCEPT ![t] = Redirect]
    /\ goto(t, "idle")
    /\ local' = [local EXCEPT ![t] = Idle]
    /\ UNCHANGED <<cache, heap, loads, served>>

Next ==
    \E t \in Threads :
        \/ \E op \in Ops : t_get_data(t, op)
        \/ t_load(t)
        \/ t_return(t)
        \/ t_index(t)
        \/ t_add_highest_id(t)
        \/ t_add_append(t)
        \/ t_delete_loop(t)
        \/ t_save(t)

\* two request threads; the backing file is absent or holds a collection with
\* pairwise distinct ids at start
ThreadFiles == {Absent, JsonFile(<<P1>>), JsonFile(<<P2, P1>>)}
InitThreads == Init /\ file \in ThreadFiles
Spec == InitThreads /\ [][Next]_vars

(***************************************************************************)
(* Properties.                                                             *)
(***************************************************************************)
DistinctIds(data) ==
    \A i, j \in 1..Len(data) : i # j => data[i].id # data[j].id

\* the posts of data whose id is not post_id, in order
Without(data, post_id) == SelectSeq(data, LAMBDA p : p.id # post_id)

\* C1: from a loaded collection with pairwise distinct ids, requests handled
\* one at a time never leave two posts with the same id in the cached collection.
C1_UniqueIds == Cached => DistinctIds(Cache)

\* a collection that lost a post and got a new one, at full length
C1_Witness ==
    /\ Cached
    /\ Len(Cache) = MaxPosts
    /\ Cache[Len(Cache)].likes = 0
    /\ Cache[Len(Cache)].id = MaxId
    /\ ret[Main] = Redirect

\* C2: N create calls from an empty collection yield the ids 1..N in order.
C2_SequentialIds ==
    Cached => \A i \in 1..Len(Cache) : Cache[i].id = i

C2_Witness == Cached /\ Len(Cache) = MaxPosts /\ ret[Main] = Redirect

\* C3: delete(id) leaves no post with that id in the cached collection,
\* also when several posts have it.
C3_DeleteRemovesAll ==
    [][\A post_id \in PostIds : delete(post_id) => post_id \notin Ids(Cache')]_vars

\* a handler's save_data call failed in this step
SaveFailed == fails' = fails + 1

\* C4 as claimed: when save fails in a request that changed the cached
\* collection, the change stays, the cached collection differs from what the
\* file holds, and the request is answered with the redirect.
C4_FailedSaveLeavesFileDifferent ==
    [][(SaveFailed /\ Cache' # get_data_list) =>
          /\ ret'[Main] = Redirect
          /\ file' # JsonFile(Cache')]_vars

\* C4 as amended: when save fails in a request that changed the cached
\* collection, the change stays (the list is what the request made of it, as
\* when save succeeds), the file keeps what it held or is left truncated, the
\* cached collection differs from the file if the file held the collection
\* of before the request, and the request is answered with the redirect.
C4_FailedSaveKeepsChange ==
    [][(SaveFailed /\ Cache' # get_data_list) =>
          /\ ret'[Main] = Redirect
          /\ file' \in {file, Garbage}
          /\ file = JsonFile(get_data_list) => file' # JsonFile(Cache')
          /\ \A post_id \in PostIds :
                /\ delete(post_id) => Cache' = delete_loop(get_data_list, 0, post_id)
                /\ like(post_id) => Cache' = like_loop(get_data_list, post_id)
                /\ \A form \in UpdateForms :
                      update("POST", post_id, form) =>
                          Cache' = update_fields(get_data_list,
                                                 updated_post(get_data_list, post_id),
                                                 form.author, form.content)
          /\ \A form \in AddForms :
                add("POST", form) =>
                    Cache' = Append(get_data_list,
                                    Post(highest_id(get_data_list) + 1, form.author,
                                         form.title, form.content, 0))]_vars

\* a failed save left the file with the collection of before the request
C4_Witness ==
    /\ Cached
    /\ fails > 0
    /\ ret[Main] = Redirect
    /\ file.kind = "json"
    /\ Len(load_data(file)) > 0
    /\ load_data(file) # Cache

\* C5: update on an id no post has answers "Post not found", does not call
\* save_data, and leaves the cached collection and the file as they were.
C5_UpdateNotFound ==
    [][\A post_id \in PostIds, request \in UpdateRequests :
          (/\ post_id \notin Ids(get_data_list)
           /\ update(request.method, post_id, request.form)) =>
              /\ ret'[Main] = NotFound
              /\ file' = file
              /\ fails' = fails
              /\ Cache' = get_data_list]_vars

\* "Post not found" was answered while the file did not hold the collection
C5_Witness ==
    /\ Cached
    /\ ret[Main] = NotFound
    /\ Len(Cache) > 0
    /\ file # JsonFile(Cache)

\* C6: the first request populates the cache; from then on load_data is not
\* called again, the cache keeps its list, and a listing shows that list
\* whatever the file holds by then.
C6_LoadsOnce ==
    [][/\ (~Cached /\ ret' # ret) => (Cached' /\ loads' = 1)
       /\ Cached => (cache' = cache /\ loads' = loads)
       /\ (Cached /\ index) => Cache' = Cache]_vars

\* a listing after another program emptied the file still shows the posts
C6_Witness ==
    /\ Cached
    /\ ret[Main] = Rendered
    /\ fails = 0
    /\ file = JsonFile(<<>>)
    /\ Len(Cache) = MaxPosts

C9_LikesMonotonic ==
    [][Cached =>
          \A i \in 1..Len(Cache), j \in 1..Len(Cache') :
              Cache[i].id = Cache'[j].id => Cache'[j].likes >= Cache[i].likes]_vars

\* a liked post was updated and kept its likes
C9_Witness ==
    /\ Cached
    /\ ret[Main] = Redirect
    /\ \E i \in 1..Len(Cache) :
          /\ Cache[i].likes = MaxLikes
          /\ Cache[i].author = "bob"
          /\ Cache[i].title = "T1"
          /\ Cache[i].id = MaxId

\* C10: with pairwise distinct ids, delete(id) of an id in the collection
\* removes that post only (one post less, the others as they were and in their
\* order); delete(id) of an id not in the collection leaves the collection as
\* it was; both are answered with the redirect.
C10_DeleteOne ==
    [][\A post_id \in PostIds :
          delete(post_id) =>
              /\ ret'[Main] = Redirect
              /\ Cache' = Without(get_data_list, post_id)
              /\ Len(Cache') = IF post_id \in Ids(get_data_list)
                               THEN Len(get_data_list) - 1
                               ELSE Len(get_data_list)]_vars

\* the middle post of three was deleted
C10_Witness ==
    /\ Cached
    /\ ret[Main] = Redirect
    /\ Cache = <<P1, P3>>

\* threads t and u have both computed the same highest_id on the same list
\* and neither has appended yet
Racing(t, u) ==
    /\ t # u
    /\ pc[t] = "add_append" /\ pc[u] = "add_append"
    /\ local[t].data = local[u].data
    /\ local[t].highest_id = local[u].highest_id

\* the posts of data with this id
Count(data, id) == Cardinality({i \in 1..Len(data) : data[i].id = id})

\* C7: when two add requests have both computed highest_id on the same list
\* before either appended, the first append leaves the other request about to
\* append the id that is now in the list, and an append of an id that is in the
\* list leaves two posts with that id.
C7_RacingCreates ==
    [][\A t \in Threads :
          t_add_append(t) =>
              LET d == local[t].data
                  id == local[t].highest_id + 1
              IN /\ Count(heap'[d], id) = Count(heap[d], id) + 1
                 /\ \A u \in Threads :
                       Racing(t, u) =>
                           /\ pc'[u] = "add_append"
                           /\ local'[u].highest_id + 1 = id
                           /\ Count(heap'[local'[u].data], id) = 1]_vars

\* both threads appended after computing the same highest_id, and the cached
\* collection, loaded with pairwise distinct ids, holds an id twice
C7_Witness ==
    /\ pc[1] = "save" /\ local[1].op = "add"
    /\ pc[2] = "save" /\ local[2].op = "add"
    /\ local[1].data = cache /\ local[2].data = cache
    /\ local[1].highest_id = local[2].highest_id
    /\ ~DistinctIds(Cache)

\* C11: update(id, a, c) on an id of the collection sets author to a and content
\* to c on one post with that id, leaves the id, title and likes of that post,
\* every other post, and the number and order of the posts as they were, and
\* calls save_data with the collection: the file holds it afterwards, unless
\* the save failed (then the file is as it was or truncated).
C11_UpdateFrame ==
    [][\A post_id \in PostIds, form \in UpdateForms :
          (/\ post_id \in Ids(get_data_list)
           /\ update("POST", post_id, form)) =>
              /\ ret'[Main] = Redirect
              /\ Len(Cache') = Len(get_data_list)
              /\ \E k \in 1..Len(Cache') :
                    /\ get_data_list[k].id = post_id
                    /\ Cache'[k].author = form.author
                    /\ Cache'[k].content = form.content
                    /\ Cache'[k].id = get_data_list[k].id
                    /\ Cache'[k].title = get_data_list[k].title
                    /\ Cache'[k].likes = get_data_list[k].likes
                    /\ \A i \in 1..Len(Cache') : i # k => Cache'[i] = get_data_list[i]
              /\ IF SaveFailed THEN file' \in {file, Garbage}
                               ELSE file' = JsonFile(Cache')]_vars

\* the last post of three, which has a like, was updated and the file holds the list
C11_Witness ==
    /\ Cached
    /\ ret[Main] = Redirect
    /\ Cache = <<P1, P2, [P3 EXCEPT !.author = "bob", !.content = NoneVal]>>
    /\ file = JsonFile(Cache)

\* C12: when the file is missing, empty, no JSON or unreadable, the first
\* request loads the empty collection (load_data is called once and the cache
\* is populated) and is answered as on an empty collection, with no error:
\* a listing and the create form are rendered, delete and like redirect and
\* leave the collection empty, update answers "Post not found", and create
\* appends the post with id 1.
C12_LoadFailureIsEmpty ==
    [][(~Cached /\ Cached' /\ file.kind # "json") =>
          /\ loads' = 1
          /\ get_data_list = <<>>
          /\ index => (ret'[Main] = Rendered /\ Cache' = <<>>)
          /\ \A post_id \in PostIds :
                /\ delete(post_id) => (ret'[Main] = Redirect /\ Cache' = <<>>)
                /\ like(post_id) => (ret'[Main] = Redirect /\ Cache' = <<>>)
                /\ \A request \in UpdateRequests :
                      update(request.method, post_id, request.form) =>
                          (ret'[Main] = NotFound /\ Cache' = <<>>)
          /\ add("GET", EmptyForm) => (ret'[Main] = Rendered /\ Cache' = <<>>)
          /\ \A form \in AddForms :
                add("POST", form) =>
                    /\ ret'[Main] = Redirect
                    /\ Cache' = <<Post(1, form.author, form.title, form.content, 0)>>]_vars

\* the file could not be read nor written, and the collection holds the post
\* that was created on the empty collection
C12_Witness ==
    /\ Cached
    /\ loads = 1
    /\ file = Unreadable
    /\ ret[Main] = Redirect
    /\ Cache = <<P1>>

\* C13: create(author, title, content) appends one post as the last element:
\* its author, title and content are the submitted values (the empty string
\* and an absent field included), its likes are 0, and its id is the largest
\* id of the collection plus 1 (1 for the empty collection); the posts that
\* were there are unchanged and keep their order; a listing renders the
\* collection as it is, the new post included.
C13_CreateAppends ==
    [][/\ \A form \in CreateForms :
            add("POST", form) =>
                LET old == get_data_list
                    n == Len(old)
                IN /\ ret'[Main] = Redirect
                   /\ Len(Cache') = n + 1
                   /\ \A i \in 1..n : Cache'[i] = old[i]
                   /\ Cache'[n + 1].author = form.author
                   /\ Cache'[n + 1].title = form.title
                   /\ Cache'[n + 1].content = form.content
                   /\ Cache'[n + 1].likes = 0
                   /\ \A i \in 1..n : old[i].id < Cache'[n + 1].id
                   /\ IF n = 0 THEN Cache'[n + 1].id = 1
                               ELSE Cache'[n + 1].id - 1 \in Ids(old)
       /\ index => (ret'[Main] = Rendered /\ Cache' = get_data_list)]_vars

\* a post with empty and absent fields was appended with the id after the
\* largest one, which is not the number of posts plus 1
C13_Witness ==
    /\ Cached
    /\ ret[Main] = Redirect
    /\ Cache = <<P2, Post(3, "", NoneVal, "", 0)>>

\* the largest number of S, 0 for the empty set
MaxOf(S) == IF S = {} THEN 0 ELSE CHOOSE m \in S : \A x \in S : x <= m

\* the id that a create request on this collection assigns
NextId(data) == MaxOf(Ids(data)) + 1

\* create assigns NextId of the collection it finds, and a request that leaves
\* the number of posts as it is leaves NextId as it is; so the id the next
\* create assigns after a delete is NextId of what the delete leaves
CreateAssignsNextId ==
    /\ \A form \in CreateForms :
          add("POST", form) => Cache'[Len(Cache')].id = NextId(get_data_list)
    /\ (Cached' /\ Len(Cache') = Len(get_data_list)) =>
          NextId(Cache') = NextId(get_data_list)

\* C14 as claimed: ids are assigned as the current maximum plus 1; after the
\* post with the maximum id is deleted, the next create assigns that id
\* again; after a post below the maximum is deleted, the next create does
\* not assign its id.
C14_MaxIdReassigned ==
    [][/\ CreateAssignsNextId
       /\ \A post_id \in PostIds :
             (post_id \in Ids(get_data_list) /\ delete(post_id)) =>
                 IF post_id = MaxOf(Ids(get_data_list))
                 THEN NextId(Cache') = post_id
                 ELSE NextId(Cache') # post_id]_vars

\* C14 as amended: ids are assigned as the current maximum plus 1; after the
\* post with the maximum id is deleted, the next create assigns the largest
\* remaining id plus 1, which is never above the deleted id and is the
\* deleted id again exactly when the id just below it is still in the
\* collection or the deleted id was 1; after a post below the maximum is
\* deleted, the next create assigns what it would have assigned before, an id
\* above the deleted one.
C14_MaxPlusOne ==
    [][/\ CreateAssignsNextId
       /\ \A post_id \in PostIds :
             (post_id \in Ids(get_data_list) /\ delete(post_id)) =>
                 IF post_id = MaxOf(Ids(get_data_list))
                 THEN /\ NextId(Cache') <= post_id
                      /\ NextId(Cache') = post_id <=>
                             (post_id = 1 \/ post_id - 1 \in Ids(get_data_list))
                 ELSE /\ NextId(Cache') = NextId(get_data_list)
                      /\ NextId(Cache') > post_id]_vars

\* id 2 was given again to a new post after the post with id 2 was deleted
C14_Witness ==
    /\ Cached
    /\ ret[Main] = Redirect
    /\ Cache = <<P1, Post(2, "alice", "T1", "hello", 0)>>
    /\ file = JsonFile(Cache)

\* C15: a collection that was saved successfully and is then loaded from the
\* file comes back equal: the same posts with the same field values (None,
\* the empty string and numbers included) in the same order.
C15_RoundTrip ==
    (pc[Main] = "loaded" /\ file.kind = "json") => heap[NextRun] = heap[Main]

\* a collection of MaxPosts posts with None and empty fields was saved and
\* loaded
C15_Witness ==
    /\ pc[Main] = "loaded"
    /\ file.kind = "json"
    /\ Len(heap[NextRun]) = MaxPosts
    /\ heap[NextRun][1].content = NoneVal
    /\ heap[NextRun][MaxPosts].author = ""
    /\ heap[NextRun][MaxPosts].likes = MaxLikes

\* a request that reaches save_data: delete, like, update (POST) of an id of
\* the collection, create.  (Each of them answers with the redirect: the
\* first conjunct follows from the others and spares TLC the rest on the
\* steps of other requests.)
Persisting ==
    /\ ret'[Main] = Redirect
    /\ \/ \E post_id \in PostIds :
             \/ delete(post_id)
             \/ like(post_id)
             \/ /\ post_id \in Ids(get_data_list)
                /\ \E form \in UpdateForms : update("POST", post_id, form)
       \/ \E form \in AddForms : add("POST", form)

\* a request that does not reach save_data: a listing, the create form, the
\* edit form, update of an id that is not in the collection.  (None of them
\* answers with the redirect.)
ReadOnly ==
    /\ ret'[Main] # Redirect
    /\ \/ index
       \/ add("GET", EmptyForm)
       \/ \E post_id \in PostIds :
             \/ update("GET", post_id, EmptyForm)
             \/ /\ post_id \notin Ids(get_data_list)
                /\ \E form \in UpdateForms : update("POST", post_id, form)

\* C16: after a request that reaches save_data and whose save succeeds, the
\* file holds the cached collection as it then is, complete and in order; and
\* a request that does not reach save_data leaves file and cache equal once
\* they are, so that with requests one at a time, no failed save and no
\* other program writing the file, the file equals the cache after every
\* such request.
C16_FileMirrorsCache ==
    [][~SaveFailed =>
          /\ Persisting => file' = JsonFile(Cache')
          /\ (Cached /\ file = JsonFile(Cache) /\ ReadOnly) =>
                file' = JsonFile(Cache')]_vars

\* after a save that failed, a later request saved the collection of
\* MaxPosts posts
C16_Witness ==
    /\ Cached
    /\ fails > 0
    /\ ret[Main] = Redirect
    /\ Len(Cache) = MaxPosts
    /\ Cache[1].likes = MaxLikes
    /\ file = JsonFile(Cache)

\* C17: delete(id) and like(id) of an id that no post has leave the cached
\* collection as it was, answer with the redirect, and still call save_data
\* with it: the file holds the collection afterwards (unless the save failed,
\* which leaves the file as it was or truncated).  So when the file was
\* there but could not be parsed, and the cache is empty, such a request
\* replaces what the file held by the serialization of the empty collection.
C17_NoOpStillSaves ==
    [][\A post_id \in PostIds :
          (/\ post_id \notin Ids(get_data_list)
           /\ (delete(post_id) \/ like(post_id))) =>
              /\ ret'[Main] = Redirect
              /\ Cache' = get_data_list
              /\ IF SaveFailed THEN file' \in {file, Garbage}
                               ELSE file' = JsonFile(Cache')
              /\ (~SaveFailed /\ file \in {Garbage, EmptyFile, Unreadable}
                     /\ Cache' = <<>>) =>
                    (file' = JsonFile(<<>>) /\ file' # file)]_vars

\* the first request, a delete or like on a file that could not be loaded,
\* left the file with the empty collection
C17_Witness ==
    /\ Cached
    /\ loads = 1
    /\ fails = 0
    /\ ret[Main] = Redirect
    /\ Cache = <<>>
    /\ file = JsonFile(<<>>)

\* C18: when several posts have the id, update(id, a, c) sets author and
\* content of the last of them in the order of the collection, and leaves
\* every other post, the earlier ones with that id included, as it was.
C18_LastMatchWins ==
    [][\A post_id \in PostIds, form \in UpdateForms :
          (/\ Count(get_data_list, post_id) >= 2
           /\ update("POST", post_id, form)) =>
              /\ Len(Cache') = Len(get_data_list)
              /\ \A i \in 1..Len(Cache') :
                    LET old == get_data_list[i]
                        last == /\ old.id = post_id
                                /\ \A j \in (i + 1)..Len(Cache') :
                                      get_data_list[j].id # post_id
                    IN Cache'[i] = IF last
                                   THEN Post(old.id, form.author, old.title,
                                             form.content, old.likes)
                                   ELSE old]_vars

\* of three posts with id 1 the last one was updated; the one before it, which
\* had the same fields, was not
C18_Witness ==
    /\ Cached
    /\ ret[Main] = Redirect
    /\ Cache = <<P1b, P1, P1b>>

\* a listing, the request for the edit form of a post, the request for the
\* create form.  (None of them answers with the redirect: the first conjunct
\* follows from the others.)
Reading ==
    /\ ret'[Main] # Redirect
    /\ \/ index
       \/ add("GET", EmptyForm)
       \/ \E post_id \in PostIds : update("GET", post_id, EmptyForm)

\* C19: a listing, the lookup for the edit form and the request for the
\* create form leave the cached collection as it is, posts and order, and do
\* not call save_data, so the file stays as it is; when they are the first
\* request, the cached collection is what load_data returns.
C19_ReadOnly ==
    [][Reading =>
          /\ file' = file
          /\ fails' = fails
          /\ Cache' = IF Cached THEN Cache ELSE load_data(file)
          /\ loads' = IF Cached THEN loads ELSE 1]_vars

\* a page was rendered from a cache of MaxPosts posts while the file was left
\* truncated by an earlier save
C19_Witness ==
    /\ Cached
    /\ ret[Main] = Rendered
    /\ file = Garbage
    /\ Len(Cache) = MaxPosts
    /\ Cache[1] # Cache[MaxPosts]

\* every post of data is a post of other
PostsKept(data, other) ==
    \A i \in 1..Len(data) : \E j \in 1..Len(other) : other[j] = data[i]

\* C20: also with concurrent first requests there is one cached collection
\* for all requests: the list a listing shows, and the list a create or a
\* delete leaves, is what the cache holds, and once the cache is populated
\* only a delete takes a post out of it, so that a listing shows the post of
\* a completed create until it is deleted.
C20_SingleCache ==
    [][/\ \A t \in Threads :
             (t_index(t) \/ t_add_append(t) \/ t_delete_loop(t)) =>
                 heap'[local[t].data] = Cache'
       /\ (Cached /\ ~(\E t \in Threads : t_delete_loop(t))) =>
             (Cached' /\ PostsKept(Cache, Cache'))]_vars

====
